---- MODULE Spec2Model ----
(***************************************************************************)
(* Model of src/EagerMOT/augmentation/augmentation_base.py: the abstract   *)
(* AugmentationMethod class, its DoNotAugment child, and the factory       *)
(* functions init_augment / create_child_class_object.                     *)
(*                                                                         *)
(* Python strings are TLA+ strings (TLC evaluates \o, Len and SubSeq on    *)
(* them).  A Python float is a record: [kind |-> "finite", num, den] for   *)
(* the decimal num/den (den a power of ten), [kind |-> "nan"] and          *)
(* [kind |-> "inf", neg].  Every other Python value carries its type in    *)
(* the same field: PyStr, PyBool, PyInt, PyDict, None; an attribute that   *)
(* has not been assigned yet is Unset.                                     *)
(***************************************************************************)
EXTENDS Integers, Sequences, FiniteSets, TLC

(***************************************************************************)
(* Bounds of the model.                                                    *)
(***************************************************************************)
\* the console delivers at most MaxInputs lines before end-of-file
MaxInputs == 3

(***************************************************************************)
(* Strings.                                                                *)
(***************************************************************************)
CharAt(s, i) == SubSeq(s, i, i)

Digits == {"0", "1", "2", "3", "4", "5", "6", "7", "8", "9"}

DigitVal(c) ==
    CASE c = "0" -> 0 [] c = "1" -> 1 [] c = "2" -> 2 [] c = "3" -> 3
      [] c = "4" -> 4 [] c = "5" -> 5 [] c = "6" -> 6 [] c = "7" -> 7
      [] c = "8" -> 8 [] c = "9" -> 9

LowerChar(c) ==
    CASE c = "N" -> "n" [] c = "A" -> "a" [] c = "I" -> "i" [] c = "F" -> "f"
      [] c = "T" -> "t" [] c = "Y" -> "y" [] OTHER -> c

RECURSIVE Lower(_)
Lower(s) == IF s = "" THEN "" ELSE LowerChar(CharAt(s, 1)) \o Lower(SubSeq(s, 2, Len(s)))

RECURSIVE Pow10(_)
Pow10(n) == IF n = 0 THEN 1 ELSE 10 * Pow10(n - 1)

RECURSIVE Spaces(_)
Spaces(n) == IF n <= 0 THEN "" ELSE " " \o Spaces(n - 1)

(***************************************************************************)
(* float(str): the built-in conversion used at line 99.  Grammar covered:  *)
(* optional sign, then nan / inf / infinity in any letter case, or a       *)
(* decimal literal digits[.digits] | .digits.  Anything else is a          *)
(* ValueError.  (Exponents, digit-group underscores and surrounding        *)
(* whitespace, which float() also accepts, do not occur in ConsoleLines.)  *)
(***************************************************************************)
ValueError == [kind |-> "ValueError"]
NaN == [kind |-> "nan"]
Inf(neg) == [kind |-> "inf", neg |-> neg]
Finite(n, d) == [kind |-> "finite", num |-> n, den |-> d]

\* the digits of s as a natural number; s holds digits only
RECURSIVE DigitsVal(_)
DigitsVal(s) ==
    IF s = "" THEN 0
    ELSE 10 * DigitsVal(SubSeq(s, 1, Len(s) - 1)) + DigitVal(CharAt(s, Len(s)))

AllDigits(s) == \A i \in 1..Len(s) : CharAt(s, i) \in Digits

\* an unsigned decimal literal
ParseUnsigned(s) ==
    LET dots == {i \in 1..Len(s) : CharAt(s, i) = "."}
    IN  IF dots = {}
        THEN IF s # "" /\ AllDigits(s) THEN Finite(DigitsVal(s), 1) ELSE ValueError
        ELSE IF Cardinality(dots) > 1 THEN ValueError
        ELSE LET d == CHOOSE i \in dots : TRUE
                 ip == SubSeq(s, 1, d - 1)
                 fp == SubSeq(s, d + 1, Len(s))
             IN  IF AllDigits(ip) /\ AllDigits(fp) /\ Len(ip) + Len(fp) > 0
                 THEN Finite(DigitsVal(ip \o fp), Pow10(Len(fp)))
                 ELSE ValueError

PyFloat(s) ==
    LET signed == s # "" /\ CharAt(s, 1) \in {"+", "-"}
        neg    == s # "" /\ CharAt(s, 1) = "-"
        body   == IF signed THEN SubSeq(s, 2, Len(s)) ELSE s
        low    == Lower(body)
        u      == ParseUnsigned(body)
    IN  IF low = "nan" THEN NaN
        ELSE IF low \in {"inf", "infinity"} THEN Inf(neg)
        ELSE IF u.kind = "finite" /\ neg THEN Finite(0 - u.num, u.den)
        ELSE u

\* variant: the range test without its lower bound
InUnitRangeNoLowerBound(b) ==
    /\ b.kind = "finite"
    /\ b.num <= b.den

\* Python's chained comparison 0 <= bias <= 1 on a float (line 104)
InUnitRange(b) ==
    /\ b.kind = "finite"
    /\ 0 <= b.num
    /\ b.num <= b.den

(***************************************************************************)
(* os.path: join and exists.                                               *)
(***************************************************************************)
\* os.path.join(a, b) for a relative b (line 140)
PathJoin(a, b) ==
    IF a = "" THEN b
    ELSE IF CharAt(a, Len(a)) = "/" THEN a \o b
    ELSE a \o "/" \o b

\* the path the OS resolves p to: repeated slashes collapse, a trailing slash is dropped
RECURSIVE PathNorm(_)
PathNorm(p) ==
    IF Len(p) <= 1 THEN p
    ELSE IF CharAt(p, 1) = "/" /\ CharAt(p, 2) = "/" THEN PathNorm(SubSeq(p, 2, Len(p)))
    ELSE IF Len(p) = 2 /\ CharAt(p, 2) = "/" THEN CharAt(p, 1)
    ELSE CharAt(p, 1) \o PathNorm(SubSeq(p, 2, Len(p)))

(***************************************************************************)
(* Configuration imported at lines 45-46.  The modules configs and         *)
(* augmentation.augmentation_params are not part of the source at hand;    *)
(* their values are inputs of the model.                                   *)
(***************************************************************************)
MOUNT_PATH == "/mnt"
VISUAL_SIM_NAME == "VisSim2D"

\* the registry: choice number -> [display name, description, identifier]
augmentation_methods ==
    (1 :> <<VISUAL_SIM_NAME, "2D visual similarity", "vis_sim_2d">>) @@
    (2 :> <<"Lidar3D", "3D point features", "lidar_3d">>)

\* the candidate contents of the default_settings dictionary
DefaultSettingsChoices ==
    { [method |-> m, name |-> VISUAL_SIM_NAME,
       folder |-> MOUNT_PATH \o "/Embeddings/VisSim2D/", bias_ratio |-> b] :
        <<m, b>> \in { <<"vis_sim_2d", Finite(5, 10)>>, <<"vis_sim_2d", Finite(15, 10)>>,
                       <<"lidar_3d", Finite(5, 10)>> } }

\* eagermot_thresholds dictionaries handed in by the caller: class -> threshold
ThresholdChoices == { (1 :> 10) @@ (3 :> 35), (3 :> 70) }
Classes == {1, 2, 3}

\* the lines the console can deliver
ConsoleLines ==
    {"y", "n", "1", "default", "0.5", "2", "-1", "nan", "inf", "/data", ""}

\* directories present on disk
ExistingDirs == {"/", "/mnt", "/mnt/data", "/out"}
SavePaths == {"/out", "/out/", "/missing"}

\* feature vectors and the argument lists of get_features / evaluate_score
Features == {"f1", "f2"}
InstanceLists == {<<>>, <<"a">>, <<"a", "b">>}

(***************************************************************************)
(* State.                                                                  *)
(***************************************************************************)
VARIABLES
    pc,                 \* position of the program
    err,                \* the exception that ended it, "" when none
    self,               \* the attributes of the instance under construction / built
    args,               \* the entry point called and its arguments
    default_settings,   \* augmentation_params.default_settings
    console,            \* the lines input() has returned so far
    since,              \* Len(console) when each prompt function was entered, -1 before
    out,                \* the lines printed so far
    files,              \* the files on disk: path -> text
    call                \* the last method call on the built instance and its result

vars == <<pc, err, self, args, default_settings, console, since, out, files, call>>

Unset == [kind |-> "unset"]
None == [kind |-> "none"]
PyStr(s) == [kind |-> "str", v |-> s]
PyBool(b) == [kind |-> "bool", v |-> b]
PyInt(n) == [kind |-> "int", v |-> n]
PyDict(d) == [kind |-> "dict", v |-> d]
Raised(e) == [kind |-> "raised", exc |-> e]

NoInstance == [cls |-> "", name |-> Unset, map_ratio |-> Unset, folder |-> Unset, bias_ratio |-> Unset]
NoArgs == [entry |-> "", automatic_init |-> FALSE, eagermot_thresholds |-> <<>>,
           dispatched |-> FALSE, method_identifier |-> "", name |-> "",
           ctor_automatic |-> FALSE]
NoPrompt == [folder |-> -1, bias |-> -1]
NoCall == [op |-> "", arg |-> <<>>, ret |-> None, files_before |-> <<>>, self_before |-> NoInstance]

Init ==
    /\ pc = "start"
    /\ err = ""
    /\ self = NoInstance
    /\ args = NoArgs
    /\ default_settings \in DefaultSettingsChoices
    /\ console = <<>>
    /\ since = NoPrompt
    /\ out = <<>>
    /\ files = <<>>
    /\ call = NoCall

(***************************************************************************)
(* AugmentationMethod.__init__, lines 51-59, in the steps the claims tell  *)
(* apart: name, then setup_map_ratio, then folder and bias_ratio.          *)
(***************************************************************************)
\* variant: folder assigned from the defaults before setup_map_ratio is called
AfterNameAssignedFolderFirst(cls, method_name) ==
    [cls |-> cls, name |-> PyStr(method_name), map_ratio |-> Unset,
     folder |-> PyStr(default_settings["folder"]), bias_ratio |-> Unset]

\* line 52: the instance right after self.name = method_name
AfterNameAssigned(cls, method_name) ==
    [cls |-> cls, name |-> PyStr(method_name), map_ratio |-> Unset,
     folder |-> Unset, bias_ratio |-> Unset]

\* entering __init__ of class cls: line 52, then on to line 53
BeginConstructor(cls, method_name) ==
    /\ self' = AfterNameAssigned(cls, method_name)
    /\ pc' = "setup_map_ratio"
    /\ err' = ""

\* lines 177-180: the import binds create_child_object only for "vis_sim_2d";
\* for any other identifier the call at line 180 reads an unbound local
CreateChildClassObject(method_identifier, name) ==
    IF method_identifier = "vis_sim_2d"
    THEN BeginConstructor("VisualSimilarity2D", name)
    ELSE /\ pc' = "raised"
         /\ err' = "UnboundLocalError"
         /\ self' = self

\* variant: init_augment matching against the folder prompt's list
AugmentYesWithDefault ==
    {"y", "Y", "yes", "YES", "Yes", "1", "default", "DEFAULT", "Default"}

\* the answers init_augment takes as yes (line 167)
AugmentYes == {"y", "Y", "yes", "YES", "Yes", "1"}

\* the answers get_source_folder_address takes as "the default folder" (line 78)
FolderYes == {"y", "Y", "yes", "YES", "Yes", "1", "default", "DEFAULT", "Default"}

AugmentQuestion ==
    "Would you like to augment EagerMOT by concatenating the EagerMOT " \o
    "affinity matrix with one based on data from another method? [y/n]"

\* input(): one more line from the console, while it has lines left
CanRead == Len(console) < MaxInputs

\* lines 159-163: init_augment(True, thresholds)
InitAugmentAutomatic ==
    /\ pc = "start"
    /\ \E thr \in ThresholdChoices :
         args' = [entry |-> "init_augment", automatic_init |-> TRUE, eagermot_thresholds |-> thr,
                  dispatched |-> TRUE,
                  method_identifier |-> default_settings.method, name |-> default_settings.name,
                  ctor_automatic |-> TRUE]
    /\ CreateChildClassObject(default_settings.method, default_settings.name)
    /\ UNCHANGED <<default_settings, console, since, out, files, call>>

\* utils_aug.choose_hyper_parameter(augmentation_methods), line 168: some key of the
\* registry (the dialogue it holds to get there is its own and is left out)
ChooseHyperParameter == DOMAIN augmentation_methods

\* lines 164-174: init_augment(False, thresholds), the answer read at line 166
InitAugmentInteractive ==
    /\ pc = "start"
    /\ CanRead
    /\ \E thr \in ThresholdChoices, savechoice \in ConsoleLines :
        /\ console' = Append(console, savechoice)
        /\ out' = Append(out, AugmentQuestion)
        /\ IF savechoice \in AugmentYes
           THEN \E choice_num \in ChooseHyperParameter :
                  /\ args' = [entry |-> "init_augment", automatic_init |-> FALSE,
                              eagermot_thresholds |-> thr, dispatched |-> TRUE,
                              method_identifier |-> augmentation_methods[choice_num][3],
                              name |-> augmentation_methods[choice_num][1],
                              ctor_automatic |-> FALSE]
                  /\ CreateChildClassObject(augmentation_methods[choice_num][3],
                                            augmentation_methods[choice_num][1])
           ELSE /\ args' = [entry |-> "init_augment", automatic_init |-> FALSE,
                            eagermot_thresholds |-> thr, dispatched |-> FALSE,
                            method_identifier |-> "", name |-> "DoNotAugment",
                            ctor_automatic |-> TRUE]
                \* line 174, DoNotAugment.__init__ (132-133)
                /\ BeginConstructor("DoNotAugment", "DoNotAugment")
    /\ UNCHANGED <<default_settings, since, files, call>>

\* create_child_class_object called on its own (lines 177-180)
CreateChildDirect ==
    /\ pc = "start"
    /\ \E id \in {"vis_sim_2d", "lidar_3d", ""}, auto \in BOOLEAN, thr \in ThresholdChoices :
       LET name == IF id = "lidar_3d" THEN "Lidar3D" ELSE VISUAL_SIM_NAME IN
        /\ args' = [entry |-> "create_child_class_object", automatic_init |-> auto,
                    eagermot_thresholds |-> thr, dispatched |-> TRUE,
                    method_identifier |-> id, name |-> name, ctor_automatic |-> auto]
        /\ CreateChildClassObject(id, name)
    /\ UNCHANGED <<default_settings, console, since, out, files, call>>

(***************************************************************************)
(* setup_map_ratio and the rest of the constructor.                        *)
(***************************************************************************)
\* DoNotAugment.setup_map_ratio, lines 135-136
DoNotAugmentSetupMapRatio(eagermot_thresholds) == PyDict(eagermot_thresholds)

\* setup_map_ratio of the visual_similarity_2d child: a per-class mapping of blend
\* ratios over the classes of the thresholds, or an exception (as the abstract
\* method's own body raises, lines 114-116)
ChildSetupMapRatio(eagermot_thresholds) ==
    { PyDict([c \in DOMAIN eagermot_thresholds |-> 100 - eagermot_thresholds[c]]),
      Raised("NotImplementedError") }

SetupMapRatioOutcomes(cls, eagermot_thresholds) ==
    IF cls = "DoNotAugment"
    THEN { DoNotAugmentSetupMapRatio(eagermot_thresholds) }
    ELSE ChildSetupMapRatio(eagermot_thresholds)

\* line 53: self.map_ratio = self.setup_map_ratio(eagermot_thresholds)
SetupMapRatio ==
    /\ pc = "setup_map_ratio"
    /\ \E o \in SetupMapRatioOutcomes(self.cls, args.eagermot_thresholds) :
        IF o.kind = "raised"
        THEN /\ pc' = "raised"
             /\ err' = o.exc
             /\ UNCHANGED self
        ELSE /\ self' = [self EXCEPT !.map_ratio = o]
             /\ pc' = "branch"
             /\ UNCHANGED err
    /\ UNCHANGED <<args, default_settings, console, since, out, files, call>>

\* variant: the constructor prompting whatever automatic_init is
TakesDefaultsNever(automatic_init) == FALSE

\* line 54: which branch the constructor takes
TakesDefaults(automatic_init) == automatic_init

\* line 74
DefaultPath(name) == MOUNT_PATH \o "/Embeddings/" \o name \o "/"

\* lines 92-96: the header printed before the bias-ratio loop
BiasHeader(name) ==
    "Insert bias ratio in the range [0, 1]:\n" \o
    (" EagerMOT" \o Spaces(25 - Len(name)) \o name) \o
    "\n 1 ----------------------------- 0"

\* lines 54-58: either both defaults (55-56), or the entry into
\* get_source_folder_address up to its first input() (lines 74-76)
ConstructorBranch ==
    /\ pc = "branch"
    /\ IF TakesDefaults(args.ctor_automatic)
       THEN /\ self' = [self EXCEPT !.folder = PyStr(default_settings["folder"]),
                                    !.bias_ratio = default_settings["bias_ratio"]]
            /\ pc' = "done"
            /\ UNCHANGED <<since, out>>
       ELSE /\ pc' = "folder_ask"
            /\ since' = [since EXCEPT !.folder = Len(console)]
            /\ out' = out \o <<"The default folder is " \o DefaultPath(self.name.v),
                               "Are your results saved in the default folder? [y/n]">>
            /\ UNCHANGED self
    /\ UNCHANGED <<err, args, default_settings, console, files, call>>

\* variant: the existence test always succeeding
PathExistsAlways(p) == TRUE

\* os.path.exists (line 83)
PathExists(p) == PathNorm(p) \in ExistingDirs \cup DOMAIN files

\* self.folder = <result of get_source_folder_address>, then line 59 enters
\* get_bias_ratio_input and prints its header
FolderChosen(folder) ==
    /\ self' = [self EXCEPT !.folder = PyStr(folder)]
    /\ pc' = "bias_loop"
    /\ since' = [since EXCEPT !.bias = Len(console')]

\* lines 77-79 and 88-89: the first answer of get_source_folder_address
FolderAnswer ==
    /\ pc = "folder_ask"
    /\ CanRead
    /\ \E savechoice \in ConsoleLines :
        /\ console' = Append(console, savechoice)
        /\ IF savechoice \notin FolderYes
           THEN /\ out' = out \o <<"Please write the path to your saved results.", MOUNT_PATH>>
                /\ pc' = "folder_loop"
                /\ UNCHANGED <<self, since>>
           ELSE /\ FolderChosen(DefaultPath(self.name.v))
                /\ out' = Append(out, BiasHeader(self.name.v))
    /\ UNCHANGED <<err, args, default_settings, files, call>>

\* lines 80-87: one turn of the path loop
FolderPath ==
    /\ pc = "folder_loop"
    /\ CanRead
    /\ \E userpath \in ConsoleLines :
        LET custom_folder_addr == MOUNT_PATH \o userpath
        IN  /\ console' = Append(console, userpath)
            /\ IF ~PathExists(custom_folder_addr)
               THEN /\ out' = out \o <<"Error: folder does not exist. Input again", MOUNT_PATH>>
                    /\ UNCHANGED <<pc, self, since>>
               ELSE /\ FolderChosen(custom_folder_addr)
                    /\ out' = Append(out, BiasHeader(self.name.v))
    /\ UNCHANGED <<err, args, default_settings, files, call>>

\* lines 97-108: one turn of the bias-ratio loop
BiasInput ==
    /\ pc = "bias_loop"
    /\ CanRead
    /\ \E line \in ConsoleLines :
        LET bias == PyFloat(line)
        IN  /\ console' = Append(console, line)
            /\ IF bias.kind = "ValueError"
               THEN /\ out' = Append(out, "Please print a number.")
                    /\ UNCHANGED <<pc, self>>
               ELSE IF InUnitRange(bias)
               THEN /\ self' = [self EXCEPT !.bias_ratio = bias]
                    /\ pc' = "done"
                    /\ UNCHANGED out
               ELSE /\ out' = Append(out, "Bias ratio outside of permitted range")
                    /\ UNCHANGED <<pc, self>>
    /\ UNCHANGED <<err, args, default_settings, since, files, call>>

\* input() at end of file: EOFError, which nothing in the file catches
\* (lines 77, 81, 99, and 166 after the question is printed)
ConsoleEOF ==
    /\ \/ /\ pc \in {"folder_ask", "folder_loop", "bias_loop"}
          /\ UNCHANGED <<args, out>>
       \/ /\ pc = "start"
          /\ \E thr \in ThresholdChoices :
               args' = [NoArgs EXCEPT !.entry = "init_augment", !.eagermot_thresholds = thr]
          /\ out' = Append(out, AugmentQuestion)
    /\ pc' = "raised"
    /\ err' = "EOFError"
    /\ UNCHANGED <<self, default_settings, console, since, files, call>>

(***************************************************************************)
(* Methods called on the built instance.                                   *)
(***************************************************************************)
\* get_name: line 62, overridden by DoNotAugment at lines 144-145
GetNameResult(obj) ==
    IF obj.cls = "DoNotAugment" THEN PyBool(FALSE) ELSE obj.name

\* get_folder, lines 64-65
GetFolderResult(obj) == obj.folder

\* get_bias_ratio, lines 67-68
GetBiasRatioResult(obj) == obj.bias_ratio

\* get_map_ratio, lines 70-71: a dictionary lookup
GetMapRatioResult(obj, class_target) ==
    IF class_target \in DOMAIN obj.map_ratio.v
    THEN PyInt(obj.map_ratio.v[class_target])
    ELSE Raised("KeyError")

\* DoNotAugment.get_features, lines 147-148: the body is `pass`
DoNotAugmentGetFeatures(detected_instances, tracks) == None

\* DoNotAugment.evaluate_score, lines 150-151: the body is `pass`
DoNotAugmentEvaluateScore(element_0, element_1) == None

\* json.dump(obj, f, indent=n) of a dictionary given as <<key, value>> pairs whose
\* values are None
RECURSIVE JsonItems(_, _)
JsonItems(pairs, indent) ==
    IF pairs = <<>> THEN ""
    ELSE Spaces(indent) \o "\"" \o pairs[1][1] \o "\": " \o
         (IF pairs[1][2] = None THEN "null" ELSE "?") \o
         (IF Len(pairs) > 1 THEN ",\n" ELSE "\n") \o JsonItems(Tail(pairs), indent)

JsonDump(pairs, indent) ==
    IF pairs = <<>> THEN "{}" ELSE "{\n" \o JsonItems(pairs, indent) \o "}"

\* line 139
ParamsToWrite == << <<"None", None>> >>

\* variant: the file name appended to save_path without a separator
ParamsFileConcat(save_path) == save_path \o "No_augmentation_used.json"

\* line 140
ParamsFile(save_path) == PathJoin(save_path, "No_augmentation_used.json")

\* lines 141-142: open(params_file, 'w') creates or truncates the file, which needs
\* its directory to exist; dump writes the text
WriteFile(fs, path, text) ==
    [p \in DOMAIN fs \cup {PathNorm(path)} |-> IF p = PathNorm(path) THEN text ELSE fs[p]]

Called(op, arg, ret) ==
    call' = [op |-> op, arg |-> arg, ret |-> ret, files_before |-> files, self_before |-> self]

CanCall == pc = "done"

GetName ==
    /\ CanCall
    /\ Called("get_name", <<>>, GetNameResult(self))
    /\ UNCHANGED <<pc, err, self, args, default_settings, console, since, out, files>>

GetFolder ==
    /\ CanCall
    /\ Called("get_folder", <<>>, GetFolderResult(self))
    /\ UNCHANGED <<pc, err, self, args, default_settings, console, since, out, files>>

GetBiasRatio ==
    /\ CanCall
    /\ Called("get_bias_ratio", <<>>, GetBiasRatioResult(self))
    /\ UNCHANGED <<pc, err, self, args, default_settings, console, since, out, files>>

GetMapRatio ==
    /\ CanCall
    /\ \E class_target \in Classes :
         Called("get_map_ratio", <<class_target>>, GetMapRatioResult(self, class_target))
    /\ UNCHANGED <<pc, err, self, args, default_settings, console, since, out, files>>

GetFeatures ==
    /\ CanCall
    /\ self.cls = "DoNotAugment"
    /\ \E detected_instances \in InstanceLists, tracks \in InstanceLists :
         Called("get_features", <<detected_instances, tracks>>,
                DoNotAugmentGetFeatures(detected_instances, tracks))
    /\ UNCHANGED <<pc, err, self, args, default_settings, console, since, out, files>>

EvaluateScore ==
    /\ CanCall
    /\ self.cls = "DoNotAugment"
    /\ \E element_0 \in Features, element_1 \in Features :
         Called("evaluate_score", <<element_0, element_1>>,
                DoNotAugmentEvaluateScore(element_0, element_1))
    /\ UNCHANGED <<pc, err, self, args, default_settings, console, since, out, files>>

\* DoNotAugment.save_augmentation_parameters, lines 138-142
SaveAugmentationParameters ==
    /\ CanCall
    /\ self.cls = "DoNotAugment"
    /\ \E save_path \in SavePaths :
        LET params_to_write == ParamsToWrite
            params_file == ParamsFile(save_path)
        IN  IF PathExists(save_path)
            THEN /\ files' = WriteFile(files, params_file, JsonDump(params_to_write, 4))
                 /\ Called("save_augmentation_parameters", <<save_path>>, None)
            ELSE /\ files' = files
                 /\ Called("save_augmentation_parameters", <<save_path>>,
                           Raised("FileNotFoundError"))
    /\ UNCHANGED <<pc, err, self, args, default_settings, console, since, out>>

Next ==
    \/ InitAugmentAutomatic
    \/ InitAugmentInteractive
    \/ CreateChildDirect
    \/ SetupMapRatio
    \/ ConstructorBranch
    \/ FolderAnswer
    \/ FolderPath
    \/ BiasInput
    \/ ConsoleEOF
    \/ GetName
    \/ GetFolder
    \/ GetBiasRatio
    \/ GetMapRatio
    \/ GetFeatures
    \/ EvaluateScore
    \/ SaveAugmentationParameters

Spec == Init /\ [][Next]_vars

(***************************************************************************)
(* Properties.                                                             *)
(***************************************************************************)
\* a float in the closed range [0, 1]
IsUnitFloat(x) == x.kind = "finite" /\ 0 <= x.num /\ x.num <= x.den

\* a path that is on disk
OnDisk(p) == PathNorm(p) \in ExistingDirs \cup DOMAIN files

\* the lines read by get_source_folder_address, once it has returned
FolderLines == SubSeq(console, since.folder + 1, since.bias)

\* the lines read by get_bias_ratio_input so far
BiasLines == SubSeq(console, since.bias + 1, Len(console))

\* init_augment(False, ...) was called and the answer to its question was not a yes
Declined ==
    /\ args.entry = "init_augment"
    /\ ~args.automatic_init
    /\ Len(console) >= 1
    /\ console[1] \notin {"y", "Y", "yes", "YES", "Yes", "1"}

C2_UnknownIdentifierDeclaredError ==
    (args.dispatched /\ args.method_identifier # "vis_sim_2d") =>
        /\ pc = "raised"
        /\ err = "UnknownAugmentationMethodError"
        /\ self = NoInstance

\* C3: evaluate_score of every concrete method of the file returns a score in
\* [0, 1] or -1, never None.
C3_EvaluateScoreInRange ==
    call.op = "evaluate_score" =>
        \/ IsUnitFloat(call.ret)
        \/ (call.ret.kind = "finite" /\ call.ret.num = 0 - call.ret.den)

\* C4: get_features of every concrete method of the file returns two sequences, as
\* long as the detections and the tracks it was given.
C4_GetFeaturesLengths ==
    call.op = "get_features" =>
        /\ call.ret.kind = "tuple"
        /\ Len(call.ret.v) = 2
        /\ Len(call.ret.v[1]) = Len(call.arg[1])
        /\ Len(call.ret.v[2]) = Len(call.arg[2])

\* C5: a DoNotAugment.save_augmentation_parameters(save_path) that returns has
\* written exactly one file, save_path/No_augmentation_used.json, holding the JSON
\* object {"None": null}, whatever the instance's fields are, and has left the
\* instance unchanged.
C5_SaveWritesNoneJson ==
    (call.op = "save_augmentation_parameters" /\ call.ret = None) =>
        LET target == PathNorm(call.arg[1] \o "/No_augmentation_used.json")
        IN  /\ DOMAIN files = DOMAIN call.files_before \cup {target}
            /\ \A p \in DOMAIN files \ {target} : files[p] = call.files_before[p]
            /\ files[target] = "{\n    \"None\": null\n}"
            /\ self = call.self_before

C5_Witness ==
    /\ call.op = "save_augmentation_parameters"
    /\ call.ret = None
    /\ call.arg[1] = "/out"
    /\ DOMAIN files = {"/out/No_augmentation_used.json"}
    /\ ~IsUnitFloat(self.bias_ratio)

\* C6: init_augment returns a DoNotAugment exactly when automatic_init is false and
\* the answer is not one of y, Y, yes, YES, Yes, 1; that instance's get_name() is
\* False, its map ratio is the thresholds mapping, and building it reads no
\* further console input.
C6_DoNotAugmentExactlyWhenDeclined ==
    /\ (args.entry = "init_augment" /\ pc = "done") => (self.cls = "DoNotAugment" <=> Declined)
    /\ Declined =>
        /\ self.cls = "DoNotAugment"
        /\ pc \in {"setup_map_ratio", "branch", "done"}
        /\ Len(console) = 1
        /\ since = NoPrompt
    /\ (Declined /\ pc = "done") => self.map_ratio = PyDict(args.eagermot_thresholds)
    /\ (Declined /\ call.op = "get_name") => call.ret = PyBool(FALSE)
    /\ (Declined /\ call.op = "get_map_ratio") =>
        LET c == call.arg[1]
        IN  IF c \in DOMAIN args.eagermot_thresholds
            THEN call.ret = PyInt(args.eagermot_thresholds[c])
            ELSE call.ret = Raised("KeyError")

C6_Witness ==
    /\ Declined
    /\ console[1] = "default"
    /\ call.op = "get_name"
    /\ call.ret = PyBool(FALSE)
    /\ self.name = PyStr("DoNotAugment")

\* the two messages get_bias_ratio_input prints before asking again
RepromptLines == {"Please print a number.", "Bias ratio outside of permitted range"}

C7_State ==
    since.bias >= 0 =>
        LET n == Len(BiasLines)
        IN  /\ pc \in {"bias_loop", "done", "raised"}
            /\ \A i \in 1..(n - 1) : ~IsUnitFloat(PyFloat(BiasLines[i]))
            /\ pc = "done" <=> (n >= 1 /\ IsUnitFloat(PyFloat(BiasLines[n])))
            /\ pc = "done" => self.bias_ratio = PyFloat(BiasLines[n])
            /\ pc # "done" => self.bias_ratio = Unset
            /\ pc = "raised" => err = "EOFError"

C7_Retry ==
    (pc = "bias_loop" /\ pc' = "bias_loop") =>
        /\ self' = self
        /\ Len(console') = Len(console) + 1
        /\ \E m \in RepromptLines : out' = Append(out, m)

\* C7: get_bias_ratio_input returns the first line that parses as a float in
\* [0, 1]; every earlier line (unparsable, out of range, NaN, infinite) only causes
\* a re-prompt and changes nothing of the instance; it returns if and only if such
\* a line arrives (otherwise it goes on until the console ends).
C7_BiasInputFirstValid == [](C7_State) /\ [][C7_Retry]_vars

C7_Witness ==
    /\ pc = "done"
    /\ since.bias >= 0
    /\ Len(BiasLines) = 2
    /\ BiasLines[1] = "nan"
    /\ self.bias_ratio = Finite(5, 10)

\* C8: get_source_folder_address: after a first answer outside the accept set it
\* returns MOUNT_PATH + u for the first later line u for which that path exists,
\* never a missing path; after a first answer in the accept set it returns
\* MOUNT_PATH + "/Embeddings/" + name + "/" having read exactly one line, whether
\* or not that folder exists.
C8_FolderAddress ==
    /\ since.bias >= 0 =>
        LET n == Len(FolderLines)
        IN  /\ n >= 1
            /\ IF FolderLines[1] \in {"y", "Y", "yes", "YES", "Yes", "1",
                                       "default", "DEFAULT", "Default"}
               THEN /\ n = 1
                    /\ self.folder = PyStr(MOUNT_PATH \o "/Embeddings/" \o self.name.v \o "/")
               ELSE /\ n >= 2
                    /\ self.folder = PyStr(MOUNT_PATH \o FolderLines[n])
                    /\ OnDisk(self.folder.v)
                    /\ \A i \in 2..(n - 1) : ~OnDisk(MOUNT_PATH \o FolderLines[i])
    /\ pc = "folder_loop" =>
        /\ self.folder = Unset
        /\ \A i \in (since.folder + 2)..Len(console) : ~OnDisk(MOUNT_PATH \o console[i])

C8_Witness ==
    /\ since.bias >= 0
    /\ Len(FolderLines) = 3
    /\ FolderLines[1] = "0.5"
    /\ FolderLines[3] = "/data"
    /\ self.folder = PyStr("/mnt/data")

\* C9: with automatic_init true nothing is read from the console: init_augment
\* dispatches on default_settings['method'] and default_settings['name'], and the
\* constructor copies folder and bias_ratio from default_settings without the
\* existence check and without the range check.
C9_AutomaticReadsNothing ==
    /\ (args.entry = "init_augment" /\ args.automatic_init) =>
        /\ console = <<>>
        /\ out = <<>>
        /\ args.dispatched
        /\ args.method_identifier = default_settings.method
        /\ (default_settings.method # "vis_sim_2d") <=> (err = "UnboundLocalError")
        /\ err # "UnboundLocalError" =>
            /\ self.cls = "VisualSimilarity2D"
            /\ self.name = PyStr(default_settings.name)
    /\ (args.entry # "" /\ args.ctor_automatic) =>
        /\ since = NoPrompt
        /\ Len(console) = (IF Declined THEN 1 ELSE 0)
        /\ pc \in {"setup_map_ratio", "branch", "done", "raised"}
        /\ pc = "done" =>
            /\ self.folder = PyStr(default_settings.folder)
            /\ self.bias_ratio = default_settings.bias_ratio

C9_Witness ==
    /\ args.entry = "init_augment"
    /\ args.automatic_init
    /\ pc = "done"
    /\ ~IsUnitFloat(self.bias_ratio)
    /\ ~OnDisk(self.folder.v)

\* C10: the constructor assigns name, then calls setup_map_ratio and stores its
\* result, and only then assigns folder and bias_ratio: while setup_map_ratio runs
\* folder and bias_ratio are not set; interactively the folder prompt is over
\* before the bias-ratio prompt starts; if setup_map_ratio fails no prompt is made.
C10_ConstructionOrder ==
    /\ pc = "setup_map_ratio" =>
        /\ self.name.kind = "str"
        /\ self.map_ratio = Unset
        /\ self.folder = Unset
        /\ self.bias_ratio = Unset
    /\ pc \in {"branch", "folder_ask", "folder_loop"} =>
        /\ self.map_ratio.kind = "dict"
        /\ self.folder = Unset
        /\ self.bias_ratio = Unset
        /\ since.bias = -1
    /\ pc = "bias_loop" =>
        /\ self.folder.kind = "str"
        /\ self.bias_ratio = Unset
    /\ since.bias >= 0 =>
        /\ 0 <= since.folder
        /\ since.folder < since.bias
        /\ self.folder.kind = "str"
    /\ self.folder # Unset => self.map_ratio.kind = "dict"
    /\ self.bias_ratio # Unset => self.folder.kind = "str"
    /\ self.map_ratio = Unset =>
        /\ since = NoPrompt
        /\ out \in {<<>>, <<AugmentQuestion>>}
        /\ Len(console) <= 1

C10_Witness ==
    /\ pc = "raised"
    /\ err = "NotImplementedError"
    /\ ~args.ctor_automatic
    /\ self.name = PyStr(VISUAL_SIM_NAME)
    /\ out = <<AugmentQuestion>>

====
